---- MODULE Spec2Model ----
(***************************************************************************)
(* Session / token lifecycle of swimo's auth package: the usecase methods  *)
(* SignUp, SignIn, SignInGuest, SignOut and RefreshToken over the SQL      *)
(* statements of authRepository.  Every store round trip is one step, so   *)
(* concurrent requests interleave between round trips.  The JWT codec of   *)
(* pkg/security and the bearer-token middleware are modelled beside them.  *)
(***************************************************************************)
EXTENDS Integers, Sequences, FiniteSets, TLC

\* ------------------------------------------------------------------ bounds
\* the clock runs from 1 to MaxTime
MaxTime == 3
\* requests started in one behaviour
MaxRequests == 4

\* ----------------------------------------------------------- configuration
\* SQL NULL (nil *string / *time.Time); ids, hashes and instants are >= 1.
NULL == 0
\* cfg.JWTAccessTTL and cfg.JWTRefreshTTL, in clock ticks (one tick = the
\* minute of the guest rate window).
JWTAccessTTL == 1
JWTRefreshTTL == 2
\* time.Minute
Minute == 1
\* cfg.Auth.JWTSecret, and the secrets a caller of the codec may hold
JWTSecret == "k1"
Secrets == {"k1", "k2"}
\* the guest settings of the deployment the session engine is checked under
DefaultConfig == [GuestEnabled |-> TRUE, GuestRatePerMinute |-> 2]
\* the guest settings an operator may configure (ceilings <= 0 included)
Configs == [GuestEnabled : BOOLEAN, GuestRatePerMinute : {-1, 0, 1, 2}]

Procs == {1, 2}
UserAgents == {"ua1", "ua2"}
\* request e-mails as typed: sequences of characters
RawEmails == { <<"a">>, <<" ", "A">> }
Passwords == {"secret"}
GuessedPasswords == {"secret", "wrong"}

\* ------------------------------------------------------------ variables
VARIABLES
    cfg,        \* cfg.Auth: the guest settings, fixed when the process starts
    now,        \* the clock read by time.Now() and SQL NOW()
    accounts,   \* committed rows of table accounts
    users,      \* committed rows of table users (profiles)
    sessions,   \* rows of table sessions; a row's id is its index
    pc,         \* per request context: the statement it is about to run
    call,       \* per request context: the locals of the usecase method
    issued,     \* the access tokens handed to clients so far
    wire,       \* a token a direct caller of the codec holds, and its origin
    children,   \* history: <<rotated session id, session id minted from it>>
    started,    \* history: the number of requests started
    app         \* the process: main's progress, the database managers, the pools

vars == <<cfg, now, accounts, users, sessions, pc, call, issued, wire, children, started, app>>

\* faulty variant: the flag is not looked at
GuestAlwaysEnabled == TRUE

\* faulty variant: the setting of the default configuration, not of the
\* running one
GuestEnabledByDefault == DefaultConfig.GuestEnabled

\* cfg.Auth.GuestEnabled and cfg.Auth.GuestRatePerMinute
GuestEnabled == cfg.GuestEnabled

GuestRatePerMinute == cfg.GuestRatePerMinute

\* -------------------------------------------------------------- helpers
\* strings.ToLower on one character
LowerChar(c) == IF c = "A" THEN "a" ELSE IF c = "B" THEN "b" ELSE c

ToLower(s) == [i \in DOMAIN s |-> LowerChar(s[i])]

RECURSIVE TrimLeft(_)
TrimLeft(s) == IF s # <<>> /\ Head(s) = " " THEN TrimLeft(Tail(s)) ELSE s

RECURSIVE TrimRight(_)
TrimRight(s) ==
    IF s # <<>> /\ s[Len(s)] = " " THEN TrimRight(SubSeq(s, 1, Len(s) - 1)) ELSE s

TrimSpace(s) == TrimRight(TrimLeft(s))

\* faulty variant: the address stored as typed
EmailAsTyped(raw) == raw

\* email := strings.TrimSpace(strings.ToLower(req.Email))
NormalizeEmail(raw) == TrimSpace(ToLower(raw))

\* bcrypt.GenerateFromPassword / bcrypt.CompareHashAndPassword
GenerateFromPassword(pw) == <<"bcrypt", pw>>

\* faulty variant: the comparison's error dropped
ComparePasswordAlways(hash, pw) == TRUE

ComparePassword(hash, pw) == hash = GenerateFromPassword(pw)

Max(S) == IF S = {} THEN 0 ELSE CHOOSE x \in S : \A y \in S : y <= x

SessionIds == DOMAIN sessions

\* ids the database has handed out so far (gen_random_uuid never repeats)
UsedAccountIds ==
    {a.id : a \in accounts} \cup {call[p].txAccount.id : p \in Procs}

UsedUserIds ==
    {u.id : u \in users} \cup {call[p].txUser.id : p \in Procs}

\* security.NewRefreshToken: 32 fresh random bytes, hashed; a value no
\* session and no request in flight holds.
UsedHashes ==
    {sessions[i].refresh_token_hash : i \in SessionIds}
        \cup {call[p].session.refresh_token_hash : p \in Procs}

\* faulty variant: the random source repeats, a credential comes out again
RepeatedRefreshToken == Max(UsedHashes \cup {1})

NewRefreshToken == Max(UsedHashes) + 1

\* NewSession(cfg, userAgent, accountId)
NewSession(userAgent, accountId) ==
    [account_id         |-> accountId,
     refresh_token_hash |-> NewRefreshToken,
     expires_at         |-> now + JWTAccessTTL,
     refresh_expires_at |-> now + JWTRefreshTTL,
     user_agent         |-> userAgent]

NoSession ==
    [account_id |-> NULL, refresh_token_hash |-> NULL, expires_at |-> NULL,
     refresh_expires_at |-> NULL, user_agent |-> ""]

\* ----------------------------------------------------- the call record
NoAccount == [id |-> NULL, email |-> <<>>, password_hash |-> <<>>, is_locked |-> FALSE]

NoUser == [id |-> NULL, account_id |-> NULL]

\* the zero Claim, and "" for a token
NoClaim == [Sub |-> NULL, Aid |-> NULL, Uid |-> NULL, Kind |-> "", Iat |-> NULL, Exp |-> NULL]

NoToken == <<>>

\* no token issued yet
NoWire ==
    [token |-> NoToken, secret |-> "", ttl |-> 0, sessionId |-> NULL, kind |-> "",
     accountId |-> NULL, userId |-> NULL, issuedAt |-> NULL, forged |-> ""]

IdleCall ==
    [op           |-> "",
     email        |-> <<>>,       \* normalized e-mail
     password     |-> "",
     userAgent    |-> "",
     refreshToken |-> NULL,       \* the credential presented to RefreshToken
     sessionId    |-> NULL,       \* SignOut's argument
     txAccount    |-> NoAccount,  \* row inserted in the open transaction
     txUser       |-> NoUser,     \* row inserted in the open transaction
     accountId    |-> NULL,       \* accountID / auth.AccountID / session.AccountID
     kind         |-> "",         \* createSessionToken's kind
     found        |-> NULL,       \* id of the session RefreshToken looked up
     session      |-> NoSession,  \* NewSession's result
     userId       |-> NULL,
     err          |-> "",         \* "ok" or the error returned
     token        |-> NoToken,    \* the access token returned
     header       |-> <<>>,       \* the Authorization header of the request
     presented    |-> NoToken,    \* the bearer token of the request
     served       |-> FALSE,      \* the middleware called the protected handler
     secret       |-> "",         \* the secret handed to VerifyJWT
     claims       |-> NoClaim,    \* the claims VerifyJWT returned
     refresh      |-> NULL,       \* refresh credential returned
     \* history of the call, read only by the properties
     typed        |-> <<>>,       \* req.Email of SignUp, as typed
     fault        |-> FALSE,      \* a store call of this request failed
     recent       |-> 0,          \* guest sessions of the user-agent in the window
     counted      |-> FALSE,      \* SignInGuest sent the count query
     countErr     |-> FALSE,      \* the count query failed
     revoked      |-> {},         \* session ids this request revoked
     revokeErr    |-> "",         \* the error RevokeSessionById returned
     created      |-> {},         \* session ids this request inserted
     wasLocked    |-> FALSE,      \* the account was locked when looked up
     wasUsable    |-> FALSE,      \* a usable session held the credential
     wasRotated   |-> FALSE]      \* an earlier refresh of the credential succeeded

\* ------------------------------------------------- authRepository (SQL)
\* GetAuthByEmail: accounts JOIN users ... WHERE a.email = $1
GetAuthByEmail(email) ==
    {a \in accounts : a.email = email /\ \E u \in users : u.account_id = a.id}

\* faulty variant: every error of the lookup reported as a miss
GetAuthByEmailErrCollapsed(err) == "InvalidCredentials"

\* GetAuthByEmail: if err == pgx.ErrNoRows { return nil, ErrInvalidCreds }
\* return nil, err
GetAuthByEmailErr(err) == IF err = "ErrNoRows" THEN "InvalidCredentials" ELSE err

\* CreateAccount: SQLSTATE 23505 becomes ErrAccountExists, any other error
\* is returned as it is
CreateAccountErr(err) == IF err = "23505" THEN "AccountExists" ELSE err

\* RefreshToken: if err == pgx.ErrNoRows { return nil, ErrExpiredRefreshToken }
\* return nil, err
RefreshLookupErr(err) == IF err = "ErrNoRows" THEN "ExpiredRefreshToken" ELSE err

\* unique index on accounts.email (SQLSTATE 23505 on conflict)
EmailTaken(email) == \E a \in accounts : a.email = email

\* userRepository.GetIdByAccountId: SELECT id FROM users WHERE account_id = $1
GetIdByAccountId(accountId) ==
    {u.id : u \in {v \in users : v.account_id = accountId}}

\* faulty variants of the WHERE clause below: a filter left out
RefreshLookupIgnoringRevocation(s, refreshToken) ==
    /\ s.refresh_token_hash = refreshToken
    /\ s.refresh_expires_at > now

RefreshLookupIgnoringExpiry(s, refreshToken) ==
    /\ s.refresh_token_hash = refreshToken
    /\ s.revoked_at = NULL

\* GetSessionByRefreshToken's WHERE clause
RefreshLookupMatches(s, refreshToken) ==
    /\ s.refresh_token_hash = refreshToken
    /\ s.revoked_at = NULL
    /\ s.refresh_expires_at > now

GetSessionByRefreshToken(refreshToken) ==
    {i \in SessionIds : RefreshLookupMatches(sessions[i], refreshToken)}

\* faulty variant: the revoked_at IS NULL filter left out
RevokeByIdAnyState(i, sessionId) == i = sessionId

\* faulty variant: the sessions minted from the named one are revoked too
RevokeByIdWithChildren(i, sessionId) ==
    /\ i = sessionId \/ <<sessionId, i>> \in children
    /\ sessions[i].revoked_at = NULL

\* RevokeSessionById's WHERE clause
RevokeByIdMatches(i, sessionId) ==
    /\ i = sessionId
    /\ sessions[i].revoked_at = NULL

\* faulty variant: the user_agent condition left out
RevokeByAccountAnyAgent(s, accountId, userAgent) ==
    /\ s.account_id = accountId
    /\ s.revoked_at = NULL
    /\ s.expires_at > now

\* RevokeSessionByAccountId's WHERE clause
RevokeByAccountMatches(s, accountId, userAgent) ==
    /\ s.account_id = accountId
    /\ s.user_agent = userAgent
    /\ s.revoked_at = NULL
    /\ s.expires_at > now

\* faulty variant: the rows are returned but revoked_at is not written
RevokeNothing(hit) == sessions

\* UPDATE sessions SET revoked_at = NOW() WHERE <hit> RETURNING id
Revoke(hit) ==
    [i \in SessionIds |->
        IF i \in hit THEN [sessions[i] EXCEPT !.revoked_at = now] ELSE sessions[i]]

RevokeSessionByIdRows(sessionId) ==
    {i \in SessionIds : RevokeByIdMatches(i, sessionId)}

RevokeSessionByAccountIdRows(accountId, userAgent) ==
    {i \in SessionIds : RevokeByAccountMatches(sessions[i], accountId, userAgent)}

\* QueryRow(...).Scan(nil): pgx.ErrNoRows when the UPDATE returned no row
ScanRevoked(rows) == IF rows = {} THEN "ErrNoRows" ELSE ""

\* faulty variant: the user_agent filter left out
CountRecentGuestAnyAgent(userAgent, since) ==
    Cardinality({i \in SessionIds :
        sessions[i].kind = "guest" /\ sessions[i].created_at >= since})

\* faulty variant: sessions minted by a refresh rotation left out
CountRecentGuestSignIns(userAgent, since) ==
    Cardinality({i \in SessionIds :
        /\ sessions[i].kind = "guest"
        /\ sessions[i].user_agent = userAgent
        /\ sessions[i].created_at >= since
        /\ \A e \in children : e[2] # i})

\* faulty variant: the created_at filter left out
CountGuestByUserAgentEver(userAgent, since) ==
    Cardinality({i \in SessionIds :
        sessions[i].kind = "guest" /\ sessions[i].user_agent = userAgent})

\* faulty variant: revoked sessions left out of the count
CountRecentGuestLive(userAgent, since) ==
    Cardinality({i \in SessionIds :
        /\ sessions[i].kind = "guest"
        /\ sessions[i].user_agent = userAgent
        /\ sessions[i].created_at >= since
        /\ sessions[i].revoked_at = NULL})

\* CountRecentGuestByUsertAgent
CountRecentGuestByUsertAgent(userAgent, since) ==
    Cardinality({i \in SessionIds :
        /\ sessions[i].kind = "guest"
        /\ sessions[i].user_agent = userAgent
        /\ sessions[i].created_at >= since})

\* faulty variant: the refresh_token_hash column not filled
SessionRowWithoutHash(session, accountId, kind) ==
    [account_id         |-> accountId,
     kind               |-> kind,
     user_agent         |-> session.user_agent,
     expires_at         |-> session.expires_at,
     refresh_token_hash |-> NULL,
     refresh_expires_at |-> session.refresh_expires_at,
     revoked_at         |-> NULL,
     created_at         |-> now]

\* CreateUserSession / CreateGuestSession: the row the INSERT stores
SessionRow(session, accountId, kind) ==
    [account_id         |-> accountId,
     kind               |-> kind,
     user_agent         |-> session.user_agent,
     expires_at         |-> session.expires_at,
     refresh_token_hash |-> session.refresh_token_hash,
     refresh_expires_at |-> session.refresh_expires_at,
     revoked_at         |-> NULL,
     created_at         |-> now]

\* faulty variant: the guest INSERT used for an account's session
CreateUserSessionAsGuest(session) == SessionRow(session, NULL, "guest")

CreateUserSession(session) == SessionRow(session, session.account_id, "user")

CreateGuestSession(session) == SessionRow(session, NULL, "guest")

\* ------------------------------------------------- security (JWT codec)
\* A string that may hold "." is kept as the sequence of its "."-free
\* segments; a segment or a byte string is a pair <<form, content>>.
\* base64.RawURLEncoding: its output never holds "."
EncodeToString(bytes) == <<"b64", bytes>>

\* DecodeString fails on a string that is not base64url text
DecodeString(str) ==
    IF str[1] = "b64" THEN [bytes |-> str[2], err |-> ""]
    ELSE [bytes |-> <<"", <<>>>>, err |-> "CorruptInput"]

\* faulty variant: the Uid field left out of the document
MarshalWithoutUid(claims) ==
    <<"json", << <<"Sub", claims.Sub>>, <<"Aid", claims.Aid>>,
                 <<"Kind", claims.Kind>>, <<"Iat", claims.Iat>>, <<"Exp", claims.Exp>> >> >>

\* json.Marshal of a Claim: the struct carries no tags, so the keys are the
\* field names, in field order; a nil pointer is written as null
Marshal(claims) ==
    <<"json", << <<"Sub", claims.Sub>>, <<"Aid", claims.Aid>>, <<"Uid", claims.Uid>>,
                 <<"Kind", claims.Kind>>, <<"Iat", claims.Iat>>, <<"Exp", claims.Exp>> >> >>

\* the value json.Unmarshal stores for a key: the last member of that name,
\* the field's zero value when the object has none
Member(object, key, zero) ==
    LET at == {i \in DOMAIN object : object[i][1] = key}
    IN  IF at = {} THEN zero ELSE object[Max(at)][2]

\* json.Unmarshal into a Claim
Unmarshal(bytes) ==
    IF bytes[1] # "json" THEN [claims |-> NoClaim, err |-> "SyntaxError"]
    ELSE [claims |-> [Sub  |-> Member(bytes[2], "Sub", NULL),
                      Aid  |-> Member(bytes[2], "Aid", NULL),
                      Uid  |-> Member(bytes[2], "Uid", NULL),
                      Kind |-> Member(bytes[2], "Kind", ""),
                      Iat  |-> Member(bytes[2], "Iat", 0),
                      Exp  |-> Member(bytes[2], "Exp", 0)],
          err |-> ""]

\* signHMACSHA256: the MAC is a function of key and message that no other
\* key or message reproduces
signHMACSHA256(data, secret) == EncodeToString(<<"hmac", <<secret, data>>>>)

\* the fixed header {"alg":"HS256","typ":"JWT"}
Header == EncodeToString(<<"json", << <<"alg", "HS256">>, <<"typ", "JWT">> >> >>)

\* signJWT: header.payload.signature
signJWT(claims, secret) ==
    LET payloadEnc == EncodeToString(Marshal(claims))
        data == <<Header, payloadEnc>>
    IN  data \o <<signHMACSHA256(data, secret)>>

\* security.NewAccessToken
NewAccessToken(secret, ttl, sessionId, kind, accountId, userId) ==
    signJWT([Sub |-> sessionId, Aid |-> accountId, Uid |-> userId, Kind |-> kind,
             Iat |-> now, Exp |-> now + ttl], secret)

\* the result of VerifyJWT: (*Claim, error)
Rejected(err) == [claims |-> NoClaim, err |-> err]

\* faulty variant: the instant exp itself counted as past
ExpiredAtExp(exp) == now >= exp

\* if time.Now().Unix() > claims.Exp
Expired(exp) == now > exp

\* faulty variant: the signature segment not compared
SignatureUnchecked(parts, secret) == TRUE

\* hmac.Equal(expectedSig, parts[2])
SignatureValid(parts, secret) ==
    signHMACSHA256(<<parts[1], parts[2]>>, secret) = parts[3]

\* faulty variant: the session store consulted, a revoked session's token refused
VerifyJWTWithRevocation(token, secret) ==
    IF Len(token) # 3 THEN Rejected("InvalidToken")
    ELSE IF ~SignatureValid(token, secret) THEN Rejected("InvalidSignature")
    ELSE LET claims == Unmarshal(DecodeString(token[2]).bytes).claims
         IN  IF claims.Sub \in SessionIds /\ sessions[claims.Sub].revoked_at # NULL
             THEN Rejected("InvalidToken")
             ELSE IF Expired(claims.Exp) THEN Rejected("ExpiredToken")
             ELSE [claims |-> claims, err |-> ""]

\* faulty variant: the payload decoded and parsed before the signature is
\* compared
VerifyJWTPayloadFirst(token, secret) ==
    IF Len(token) # 3 THEN Rejected("InvalidToken")
    ELSE LET payloadBytes == DecodeString(token[2])
             parsed == Unmarshal(payloadBytes.bytes)
         IN  IF payloadBytes.err # "" THEN Rejected("InvalidToken")
             ELSE IF parsed.err # "" \/ parsed.claims.Sub = NULL
             THEN Rejected("InvalidToken")
             ELSE IF ~SignatureValid(token, secret) THEN Rejected("InvalidSignature")
             ELSE IF Expired(parsed.claims.Exp) THEN Rejected("ExpiredToken")
             ELSE [claims |-> parsed.claims, err |-> ""]

\* security.VerifyJWT
VerifyJWT(token, secret) ==
    IF Len(token) # 3 THEN Rejected("InvalidToken")
    ELSE IF ~SignatureValid(token, secret) THEN Rejected("InvalidSignature")
    ELSE LET payloadBytes == DecodeString(token[2])
             parsed == Unmarshal(payloadBytes.bytes)
         IN  IF payloadBytes.err # "" THEN Rejected("InvalidToken")
             ELSE IF parsed.err # "" \/ parsed.claims.Sub = NULL
             THEN Rejected("InvalidToken")
             ELSE IF Expired(parsed.claims.Exp) THEN Rejected("ExpiredToken")
             ELSE [claims |-> parsed.claims, err |-> ""]

\* ------------------------------------------------------------ process
\* database.Manager values of the process: the one main makes and the one
\* NewServer puts into the Server
Managers == {"main", "server"}

\* before main runs: no manager, no pool
NoApp ==
    [phase     |-> "main",                        \* where main / Start is
     databases |-> [m \in Managers |-> {}],        \* Manager.databases: its keys
     open      |-> {},                            \* pools created and not closed
     err       |-> ""]                            \* what Start returned

\* Manager.Connect(ctx, name, ...): a new pool, kept in this manager's map
Connect(a, m, name) ==
    IF name \in a.databases[m] /\ <<m, name>> \in a.open THEN a
    ELSE [a EXCEPT !.databases[m] = @ \cup {name}, !.open = @ \cup {<<m, name>>}]

\* Manager.CloseAll: Database.close on every entry of this manager's map
\* (close returns no error), then the map is emptied
CloseAll(a, m) ==
    [a EXCEPT !.open = @ \ {<<m, name>> : name \in a.databases[m]},
              !.databases[m] = {}]

\* the process as it serves: main ran NewServer, NewManager and
\* Connect("primary") and called Start
Serving == [Connect(NoApp, "main", "primary") EXCEPT !.phase = "serving"]

\* ------------------------------------------------------------- initial
Init ==
    /\ cfg = DefaultConfig
    /\ now = 1
    /\ accounts = {}
    /\ users = {}
    /\ sessions = <<>>
    /\ pc = [p \in Procs |-> "idle"]
    /\ call = [p \in Procs |-> IdleCall]
    /\ issued = {}
    /\ wire = NoWire
    /\ children = {}
    /\ started = 0
    /\ app = Serving

\* a finished request is observed (Return) before anything else moves
NoneDone == \A q \in Procs : pc[q] # "done"

At(p, label) == pc[p] = label /\ NoneDone

\* a new request takes the lowest free context (the contexts are alike)
Accept(p) ==
    /\ At(p, "idle")
    /\ \A q \in Procs : q < p => pc[q] # "idle"
    /\ started < MaxRequests

\* return err from the method.  "StoreError" stands for whatever error a
\* failed store call returns: a connection or SQL error, context.Canceled,
\* context.DeadlineExceeded
Fail(p, c, err) ==
    /\ started' = IF pc[p] = "idle" THEN started + 1 ELSE started
    /\ pc' = [pc EXCEPT ![p] = "done"]
    /\ call' = [call EXCEPT ![p] = [c EXCEPT !.err = err]]

StoreFail(p, c) == Fail(p, [c EXCEPT !.fault = TRUE], "StoreError")

Goto(p, c, label) ==
    /\ started' = IF pc[p] = "idle" THEN started + 1 ELSE started
    /\ pc' = [pc EXCEPT ![p] = label]
    /\ call' = [call EXCEPT ![p] = c]

\* tx.Rollback (deferred): the rows of the open transaction are dropped
Rollback(c) == [c EXCEPT !.txAccount = NoAccount, !.txUser = NoUser]

\* another open transaction holds an uncommitted row with this e-mail: the
\* INSERT waits on the unique index until that transaction ends
InsertWaits(p, email) ==
    \E q \in Procs \ {p} :
        call[q].txAccount.id # NULL /\ call[q].txAccount.email = email

\* CreateAccount: the row INSERT INTO accounts ... RETURNING id stores
CreateAccount(email, passwordHash) ==
    [id |-> Max(UsedAccountIds) + 1, email |-> email,
     password_hash |-> passwordHash, is_locked |-> FALSE]

\* CreateUser: the row INSERT INTO users ... RETURNING id stores
CreateUser(accountId) == [id |-> Max(UsedUserIds) + 1, account_id |-> accountId]

\* tx.Commit: the rows of the transaction become visible together
CommitAccounts(c) == accounts \cup {c.txAccount}

\* faulty variant: the profile INSERT is not part of the committed transaction
CommitWithoutUser(c) == users

CommitUsers(c) == users \cup {c.txUser}

\* --------------------------------------------------------------- SignUp
\* bcrypt hash, BeginTx, normalize, CreateAccount
SignUpCreateAccount(p, raw, password) ==
    /\ Accept(p)
    /\ LET email == NormalizeEmail(raw)
           c == [IdleCall EXCEPT !.op = "SignUp", !.email = email,
                                 !.password = password, !.typed = raw]
       IN  /\ ~InsertWaits(p, email)
           /\ \/ Fail(p, [c EXCEPT !.fault = TRUE], CreateAccountErr("StoreError"))
              \/ /\ EmailTaken(email)
                 /\ Fail(p, c, CreateAccountErr("23505"))
              \/ /\ ~EmailTaken(email)
                 /\ LET row == CreateAccount(email, GenerateFromPassword(password))
                    IN  Goto(p, [c EXCEPT !.txAccount = row, !.accountId = row.id],
                             "su_user")
    /\ UNCHANGED <<cfg, wire, now, accounts, users, sessions, issued, children, app>>

\* CreateUser inside the transaction
SignUpCreateUser(p) ==
    /\ At(p, "su_user")
    /\ \/ StoreFail(p, Rollback(call[p]))
       \/ Goto(p, [call[p] EXCEPT !.txUser = CreateUser(call[p].txAccount.id)],
               "su_commit")
    /\ UNCHANGED <<cfg, wire, now, accounts, users, sessions, issued, children, app>>

\* tx.Commit
SignUpCommit(p) ==
    /\ At(p, "su_commit")
    /\ \/ /\ StoreFail(p, Rollback(call[p]))
          /\ UNCHANGED <<accounts, users>>
       \/ /\ accounts' = CommitAccounts(call[p])
          /\ users' = CommitUsers(call[p])
          /\ Fail(p, Rollback(call[p]), "ok")
    /\ UNCHANGED <<cfg, wire, now, sessions, issued, children, app>>

\* --------------------------------------------------- createSessionToken
\* NewSession, then the branch on kind / accountId
CreateSessionToken(p, c, kind, userAgent, accountId) ==
    LET d == [c EXCEPT !.kind = kind, !.accountId = accountId,
                       !.session = NewSession(userAgent, accountId)]
    IN  IF kind = "guest" \/ accountId = NULL
        THEN Goto(p, d, "mint_insert")
        ELSE Goto(p, d, "mint_profile")

\* userRepo.GetIdByAccountId
MintGetUserId(p) ==
    /\ At(p, "mint_profile")
    /\ LET ids == GetIdByAccountId(call[p].accountId)
       IN  \/ StoreFail(p, call[p])
           \/ /\ ids = {}
              /\ Fail(p, call[p], "ErrNoRows")
           \/ \E id \in ids : Goto(p, [call[p] EXCEPT !.userId = id], "mint_insert")
    /\ UNCHANGED <<cfg, wire, now, accounts, users, sessions, issued, children, app>>

\* CreateGuestSession / CreateUserSession, then NewAccessToken
MintCreateSession(p) ==
    /\ At(p, "mint_insert")
    /\ LET c == call[p]
           sessionId == Len(sessions) + 1
           row == IF c.kind = "guest" \/ c.accountId = NULL
                  THEN CreateGuestSession(c.session)
                  ELSE CreateUserSession(c.session)
           token == NewAccessToken(JWTSecret, JWTAccessTTL, sessionId,
                                   c.kind, c.accountId, c.userId)
       IN  \/ /\ StoreFail(p, c)
              /\ UNCHANGED <<sessions, issued, children>>
           \/ /\ sessions' = Append(sessions, row)
              /\ issued' = issued \cup {token}
              /\ children' = IF c.op = "RefreshToken"
                             THEN children \cup {<<c.found, sessionId>>}
                             ELSE children
              /\ Fail(p, [c EXCEPT
                            !.token = token,
                            !.refresh = c.session.refresh_token_hash,
                            !.created = {sessionId}],
                      "ok")
    /\ UNCHANGED <<cfg, wire, now, accounts, users, app>>

\* --------------------------------------------------------------- SignIn
\* faulty variant: the password compared before the lock is looked at
CheckPasswordFirst(auth, password) ==
    IF ~ComparePassword(auth.password_hash, password) THEN "InvalidCredentials"
    ELSE IF auth.is_locked THEN "AccountLocked"
    ELSE ""

\* the checks between GetAuthByEmail and the revocation, in the code's order
CheckCredentials(auth, password) ==
    IF auth.is_locked THEN "AccountLocked"
    ELSE IF ~ComparePassword(auth.password_hash, password) THEN "InvalidCredentials"
    ELSE ""

\* faulty variant: pgx.ErrNoRows not tolerated
SignInRevokeStrict(err) == err # ""

\* if err != nil { if err != pgx.ErrNoRows { return nil, err } }
SignInRevokeFails(err) == err # "" /\ err # "ErrNoRows"

\* GetAuthByEmail, the lock check, ComparePassword
SignInGetAuth(p, raw, password, userAgent) ==
    /\ Accept(p)
    /\ LET email == NormalizeEmail(raw)
           c == [IdleCall EXCEPT !.op = "SignIn", !.email = email,
                                 !.password = password, !.userAgent = userAgent]
           rows == GetAuthByEmail(email)
       IN  \/ Fail(p, [c EXCEPT !.fault = TRUE], GetAuthByEmailErr("StoreError"))
           \/ /\ rows = {}
              /\ Fail(p, c, GetAuthByEmailErr("ErrNoRows"))
           \/ \E auth \in rows :
                LET d == [c EXCEPT !.accountId = auth.id, !.wasLocked = auth.is_locked]
                    err == CheckCredentials(auth, password)
                IN  IF err # "" THEN Fail(p, d, err) ELSE Goto(p, d, "si_revoke")
    /\ UNCHANGED <<cfg, wire, now, accounts, users, sessions, issued, children, app>>

\* RevokeSessionByAccountId (pgx.ErrNoRows tolerated), then createSessionToken
SignInRevoke(p) ==
    /\ At(p, "si_revoke")
    /\ LET c == call[p]
           rows == RevokeSessionByAccountIdRows(c.accountId, c.userAgent)
           d == [c EXCEPT !.revoked = rows]
       IN  \/ /\ StoreFail(p, c)
              /\ UNCHANGED sessions
           \/ /\ sessions' = Revoke(rows)
              /\ IF SignInRevokeFails(ScanRevoked(rows))
                 THEN Fail(p, d, ScanRevoked(rows))
                 ELSE CreateSessionToken(p, d, "user", c.userAgent, c.accountId)
    /\ UNCHANGED <<cfg, wire, now, accounts, users, issued, children, app>>

\* ---------------------------------------------------------- SignInGuest
\* guest sessions of a user-agent created within the trailing minute
RecentGuests(userAgent) ==
    {i \in SessionIds :
        /\ sessions[i].kind = "guest"
        /\ sessions[i].user_agent = userAgent
        /\ now - sessions[i].created_at <= Minute}

\* what the count query may return: the count, or an error
CountResults(userAgent, since) ==
    {[count |-> CountRecentGuestByUsertAgent(userAgent, since), err |-> ""],
     [count |-> 0, err |-> "StoreError"]}

\* faulty variant: a counting error blocks the sign-in
GuestLimitedOnError(res, ceiling) == res.err # "" \/ res.count >= ceiling

\* if err == nil && count >= uc.cfg.Auth.GuestRatePerMinute
GuestLimited(res, ceiling) == res.err = "" /\ res.count >= ceiling

SignInGuest(p, userAgent) ==
    /\ Accept(p)
    /\ LET c == [IdleCall EXCEPT !.op = "SignInGuest", !.userAgent = userAgent,
                                 !.recent = Cardinality(RecentGuests(userAgent))]
           since == now - Minute
       IN  IF ~GuestEnabled
           THEN Fail(p, c, "GuestDisabled")
           ELSE IF GuestRatePerMinute > 0
           THEN \E res \in CountResults(userAgent, since) :
                   LET d == [c EXCEPT !.counted = TRUE, !.countErr = res.err # ""]
                   IN  IF GuestLimited(res, GuestRatePerMinute)
                       THEN Fail(p, d, "GuestRateLimited")
                       ELSE CreateSessionToken(p, d, "guest", userAgent, NULL)
           ELSE CreateSessionToken(p, c, "guest", userAgent, NULL)
    /\ UNCHANGED <<cfg, wire, now, accounts, users, sessions, issued, children, app>>

\* -------------------------------------------------------------- SignOut
\* faulty variant: pgx.ErrNoRows returned to the handler
SignOutRevokeStrict(err) == err # ""

\* if err != nil { if err != pgx.ErrNoRows { return err } }
SignOutRevokeFails(err) == err # "" /\ err # "ErrNoRows"

\* RevokeSessionById
SignOut(p, sessionId) ==
    /\ Accept(p)
    /\ LET c == [IdleCall EXCEPT !.op = "SignOut", !.sessionId = sessionId]
           rows == RevokeSessionByIdRows(sessionId)
       IN  \/ /\ StoreFail(p, c)
              /\ UNCHANGED sessions
           \/ /\ sessions' = Revoke(rows)
              /\ Fail(p, [c EXCEPT !.revoked = rows, !.revokeErr = ScanRevoked(rows)],
                      IF SignOutRevokeFails(ScanRevoked(rows))
                      THEN ScanRevoked(rows) ELSE "ok")
    /\ UNCHANGED <<cfg, wire, now, accounts, users, issued, children, app>>

\* --------------------------------------------------------- RefreshToken
\* a session is usable for refresh iff not revoked and refresh not expired
Usable(s) == s.revoked_at = NULL /\ s.refresh_expires_at > now

\* GetSessionByRefreshToken; pgx.ErrNoRows becomes ErrExpiredRefreshToken
RefreshGetSession(p, refreshToken) ==
    /\ Accept(p)
    /\ LET c == [IdleCall EXCEPT
                    !.op = "RefreshToken", !.refreshToken = refreshToken,
                    !.wasUsable = \E i \in SessionIds :
                        sessions[i].refresh_token_hash = refreshToken /\ Usable(sessions[i]),
                    !.wasRotated = \E e \in children :
                        sessions[e[1]].refresh_token_hash = refreshToken]
           rows == GetSessionByRefreshToken(refreshToken)
       IN  \/ Fail(p, [c EXCEPT !.fault = TRUE], RefreshLookupErr("StoreError"))
           \/ /\ rows = {}
              /\ Fail(p, c, RefreshLookupErr("ErrNoRows"))
           \/ \E id \in rows : Goto(p, [c EXCEPT !.found = id], "rf_revoke")
    /\ UNCHANGED <<cfg, wire, now, accounts, users, sessions, issued, children, app>>

\* faulty variant: pgx.ErrNoRows tolerated as in SignOut
RefreshRevokeTolerant(err) == err # "" /\ err # "ErrNoRows"

\* err = RevokeSessionById(...); if err != nil { return nil, err }
RefreshRevokeFails(err) == err # ""

\* RevokeSessionById, then createSessionToken
RefreshRevoke(p) ==
    /\ At(p, "rf_revoke")
    /\ LET c == call[p]
           session == sessions[c.found]
           rows == RevokeSessionByIdRows(c.found)
       IN  \/ /\ StoreFail(p, c)
              /\ UNCHANGED sessions
           \/ /\ sessions' = Revoke(rows)
              /\ IF RefreshRevokeFails(ScanRevoked(rows))
                 THEN Fail(p, [c EXCEPT !.revoked = rows], ScanRevoked(rows))
                 ELSE CreateSessionToken(p, [c EXCEPT !.revoked = rows],
                          session.kind, session.user_agent, session.account_id)
    /\ UNCHANGED <<cfg, wire, now, accounts, users, issued, children, app>>

\* ------------------------------------------------------- AuthMiddleware
\* VerifyJWT on the bearer token; any error is answered 401, otherwise the
\* claims go into the request context
AuthMiddleware(p, token) ==
    /\ Accept(p)
    /\ LET res == VerifyJWT(token, JWTSecret)
           c == [IdleCall EXCEPT !.op = "Authenticate", !.presented = token,
                                 !.secret = JWTSecret, !.claims = res.claims]
       IN  Fail(p, c, IF res.err = "" THEN "ok" ELSE res.err)
    /\ UNCHANGED <<cfg, wire, now, accounts, users, sessions, issued, children, app>>

\* ------------------------------------------- POST /api/v1/sign-out
\* An Authorization header is kept as the sequence of its words (the pieces
\* between single spaces); "" is the empty sequence.  A scheme word is a
\* sequence of characters, a token word a sequence of segments.
Bearer == <<"B", "e", "a", "r", "e", "r">>

\* faulty variant: the scheme compared as it is written
EqualExact(s, t) == s = t

\* strings.EqualFold
EqualFold(s, t) == ToLower(s) = ToLower(t)

\* the text after the first space: one token word, or a token word with
\* more text behind it, which becomes part of the token's last segment
JoinRest(words) ==
    IF Len(words) = 1 THEN words[1]
    ELSE [words[1] EXCEPT ![Len(words[1])] = <<"text", <<@>> \o Tail(words)>>]

\* strings.SplitN(authHeader, " ", 2)
SplitN(authHeader) ==
    IF Len(authHeader) <= 1 THEN authHeader
    ELSE <<authHeader[1], JoinRest(Tail(authHeader))>>

Unauthorized == [status |-> 401, claims |-> NoClaim]

\* AuthMiddleware up to the call of next: 401, or the claims put into the
\* request context
Authorize(authHeader, secret) ==
    IF authHeader = <<>> THEN Unauthorized
    ELSE LET parts == SplitN(authHeader)
         IN  IF Len(parts) # 2 \/ ~EqualFold(parts[1], Bearer) THEN Unauthorized
             ELSE LET res == VerifyJWT(parts[2], secret)
                  IN  IF res.err # "" THEN Unauthorized
                      ELSE [status |-> 200, claims |-> res.claims]

\* mux.Handle("POST /api/v1/sign-out", authMiddleware(authHandler.SignOut)):
\* the middleware, then AuthHandler.SignOut with claim.Sub
PostSignOut(p, authHeader) ==
    /\ Accept(p)
    /\ LET auth == Authorize(authHeader, JWTSecret)
           c == [IdleCall EXCEPT !.op = "PostSignOut", !.header = authHeader,
                                 !.secret = JWTSecret, !.claims = auth.claims]
           d == [c EXCEPT !.served = TRUE, !.sessionId = auth.claims.Sub]
           rows == RevokeSessionByIdRows(auth.claims.Sub)
       IN  IF auth.status = 401
           THEN /\ Fail(p, c, "Unauthorized")
                /\ UNCHANGED sessions
           ELSE \/ /\ StoreFail(p, d)
                   /\ UNCHANGED sessions
                \/ /\ sessions' = Revoke(rows)
                   /\ Fail(p, [d EXCEPT !.revoked = rows, !.revokeErr = ScanRevoked(rows)],
                           IF SignOutRevokeFails(ScanRevoked(rows))
                           THEN ScanRevoked(rows) ELSE "ok")
    /\ UNCHANGED <<cfg, wire, now, accounts, users, issued, children, app>>

\* ---------------------------------------------------------- environment
\* the method has returned: its result is handed to the caller
Return(p) ==
    /\ pc[p] = "done"
    /\ pc' = [pc EXCEPT ![p] = "idle"]
    /\ call' = [call EXCEPT ![p] = IdleCall]
    /\ UNCHANGED <<cfg, wire, now, accounts, users, sessions, issued, children, started, app>>

\* time passes; one tick is a minute, and the round trips of a request
\* fall within one tick
Tick ==
    /\ \A q \in Procs : pc[q] = "idle"
    /\ now < MaxTime
    /\ now' = now + 1
    /\ UNCHANGED <<cfg, wire, accounts, users, sessions, pc, call, issued, children, started, app>>

\* an operator locks an account (accounts.is_locked is set outside this code)
LockAccount(a) ==
    /\ NoneDone
    /\ ~a.is_locked
    /\ accounts' = (accounts \ {a}) \cup {[a EXCEPT !.is_locked = TRUE]}
    /\ UNCHANGED <<cfg, wire, now, users, sessions, pc, call, issued, children, started, app>>

\* ------------------------------------------------------- specification
\* every credential issued so far and one that never was
Credentials == 1..(Max(UsedHashes) + 1)

\* every session id and one that names no session
SessionIdArgs == 1..(Len(sessions) + 1)

Request(p) ==
    \/ \E raw \in RawEmails, pw \in Passwords : SignUpCreateAccount(p, raw, pw)
    \/ SignUpCreateUser(p)
    \/ SignUpCommit(p)
    \/ \E raw \in RawEmails, pw \in GuessedPasswords, ua \in UserAgents :
          SignInGetAuth(p, raw, pw, ua)
    \/ SignInRevoke(p)
    \/ MintGetUserId(p)
    \/ MintCreateSession(p)
    \/ \E ua \in UserAgents : SignInGuest(p, ua)
    \/ \E id \in SessionIdArgs : SignOut(p, id)
    \/ \E rt \in Credentials : RefreshGetSession(p, rt)
    \/ RefreshRevoke(p)
    \/ Return(p)

Environment == Tick \/ \E a \in accounts : LockAccount(a)

\* requests on independent contexts, interleaved between store round trips
Next == Environment \/ \E p \in Procs : Request(p)

Spec == Init /\ [][Next]_vars

\* one request at a time: a sequential history
SeqNext == Environment \/ Request(1)

SeqSpec == Init /\ [][SeqNext]_vars

\* clients also present the access tokens they were handed
AccessNext ==
    \/ Next
    \/ \E p \in Procs, token \in issued : AuthMiddleware(p, token)

AccessSpec == Init /\ [][AccessNext]_vars

\* ------------------------------------------------- main and the Server
\* main: server.NewServer (with a manager of its own), database.NewManager,
\* dbManager.Connect("primary"); a failed Connect ends in os.Exit(1)
Main ==
    /\ app.phase = "main"
    /\ \/ app' = [Connect(app, "main", "primary") EXCEPT !.phase = "wired"]
       \/ app' = [app EXCEPT !.phase = "exited", !.err = "connect failed"]
    /\ UNCHANGED <<cfg, now, accounts, users, sessions, pc, call, issued, wire, children, started>>

\* httpServer.Start(): ListenAndServe in its goroutine
Start ==
    /\ app.phase = "wired"
    /\ app' = [app EXCEPT !.phase = "serving"]
    /\ UNCHANGED <<cfg, now, accounts, users, sessions, pc, call, issued, wire, children, started>>

\* case err := <-serverErrors: Start returns it and main panics
ServerError ==
    /\ app.phase = "serving"
    /\ app' = [app EXCEPT !.phase = "returned", !.err = "server error"]
    /\ UNCHANGED <<cfg, now, accounts, users, sessions, pc, call, issued, wire, children, started>>

\* case <-shutdown: SIGINT or SIGTERM, gracefulShutdown is entered
Signal ==
    /\ app.phase = "serving"
    /\ app' = [app EXCEPT !.phase = "shutdown"]
    /\ UNCHANGED <<cfg, now, accounts, users, sessions, pc, call, issued, wire, children, started>>

\* s.server.Shutdown(shutdownCtx): returns nil once no request is in
\* flight; with requests in flight the timeout may pass, and
\* gracefulShutdown returns "server shutdown failed"
ServerShutdown ==
    /\ app.phase = "shutdown"
    /\ IF \A p \in Procs : pc[p] = "idle"
       THEN app' = [app EXCEPT !.phase = "closing"]
       ELSE app' = [app EXCEPT !.phase = "returned", !.err = "server shutdown failed"]
    /\ UNCHANGED <<cfg, now, accounts, users, sessions, pc, call, issued, wire, children, started>>

\* if s.dbManager != nil { s.dbManager.CloseAll() }; return nil
CloseDatabases ==
    /\ app.phase = "closing"
    /\ app' = [CloseAll(app, "server") EXCEPT !.phase = "returned", !.err = "nil"]
    /\ UNCHANGED <<cfg, now, accounts, users, sessions, pc, call, issued, wire, children, started>>

\* guest requests reach the handlers while the server listens; requests in
\* flight go on after the signal
Serve(p) ==
    \/ /\ app.phase = "serving"
       /\ \E ua \in UserAgents : SignInGuest(p, ua)
    \/ /\ app.phase \in {"serving", "shutdown"}
       /\ MintCreateSession(p) \/ Return(p)

ServerInit ==
    /\ cfg = DefaultConfig
    /\ now = 1
    /\ accounts = {}
    /\ users = {}
    /\ sessions = <<>>
    /\ pc = [p \in Procs |-> "idle"]
    /\ call = [p \in Procs |-> IdleCall]
    /\ issued = {}
    /\ wire = NoWire
    /\ children = {}
    /\ started = 0
    /\ app = NoApp

ServerNext ==
    \/ Main
    \/ Start
    \/ ServerError
    \/ Signal
    \/ ServerShutdown
    \/ CloseDatabases
    \/ \E p \in Procs : Serve(p)
    \/ app.phase = "serving" /\ Tick

ServerSpec == ServerInit /\ [][ServerNext]_vars

\* scheme words a client may send
Schemes == {Bearer, <<"b", "e", "a", "r", "e", "r">>, <<"B", "a", "s", "i", "c">>}

\* a token for session 1 signed with a key that is not the server's
ForgedTokens == {NewAccessToken("k2", JWTAccessTTL, 1, "guest", NULL, NULL)}

\* Authorization headers: none, a scheme alone, a scheme and a token that
\* was handed out or forged, a token with a word behind it
Headers ==
    {<<>>, <<Bearer>>}
        \cup {<<scheme, token>> : scheme \in Schemes, token \in issued \cup ForgedTokens}
        \cup {<<Bearer, token, <<"x">>>> : token \in issued}

\* the usecase behind its routes: sign-out is reached through the middleware
RouteRequest(p) ==
    \/ \E raw \in RawEmails, pw \in Passwords : SignUpCreateAccount(p, raw, pw)
    \/ SignUpCreateUser(p)
    \/ SignUpCommit(p)
    \/ \E raw \in RawEmails, pw \in GuessedPasswords, ua \in UserAgents :
          SignInGetAuth(p, raw, pw, ua)
    \/ SignInRevoke(p)
    \/ MintGetUserId(p)
    \/ MintCreateSession(p)
    \/ \E ua \in UserAgents : SignInGuest(p, ua)
    \/ \E authHeader \in Headers : PostSignOut(p, authHeader)
    \/ \E rt \in Credentials : RefreshGetSession(p, rt)
    \/ RefreshRevoke(p)
    \/ Return(p)

RouteNext == Environment \/ \E p \in Procs : RouteRequest(p)

RouteSpec == Init /\ [][RouteNext]_vars

\* ------------------------------------------------- the codec on its own
\* arguments of NewAccessToken: ttl (negative and zero included), session id
\* (the empty one included), kind, optional account and user id
TTLs == {-1, 0, 1}
SubjectArgs == {NULL, 1, 2}
Kinds == {"guest", "user"}
OptionalIds == {NULL, 1}

\* token, exp, err := NewAccessToken(secret, ttl, sessionId, kind, accountId, userId)
Issue(secret, ttl, sessionId, kind, accountId, userId) ==
    /\ \A q \in Procs : pc[q] = "idle"
    /\ wire' = [token |-> NewAccessToken(secret, ttl, sessionId, kind, accountId, userId),
                secret |-> secret, ttl |-> ttl, sessionId |-> sessionId, kind |-> kind,
                accountId |-> accountId, userId |-> userId, issuedAt |-> now,
                forged |-> ""]
    /\ UNCHANGED <<cfg, now, accounts, users, sessions, pc, call, issued, children, started, app>>

\* other values for the third segment: the MAC under another key, the MAC of
\* another message under the same key, text that is not base64url, nothing
OtherSignatures(token) ==
    IF Len(token) # 3 THEN {}
    ELSE ({signHMACSHA256(<<token[1], token[2]>>, k) : k \in Secrets}
            \cup {signHMACSHA256(<<token[1], token[1]>>, k) : k \in Secrets}
            \cup {<<"text", <<>>>>, EncodeToString(<<"", <<>>>>)}) \ {token[3]}

\* the holder changes the signature segment, keeping three segments
TamperSignature(signature) ==
    /\ \A q \in Procs : pc[q] = "idle"
    /\ Len(wire.token) = 3
    /\ wire.forged = ""
    /\ wire' = [wire EXCEPT !.token = [@ EXCEPT ![3] = signature],
                            !.forged = "signature"]
    /\ UNCHANGED <<cfg, now, accounts, users, sessions, pc, call, issued, children, started, app>>

\* the holder cuts the token after its second segment
DropSignature ==
    /\ \A q \in Procs : pc[q] = "idle"
    /\ Len(wire.token) = 3
    /\ wire.forged = ""
    /\ wire' = [wire EXCEPT !.token = SubSeq(@, 1, 2), !.forged = "structure"]
    /\ UNCHANGED <<cfg, now, accounts, users, sessions, pc, call, issued, children, started, app>>

\* payload segments that carry no claim document: text that is not
\* base64url, and the base64url of bytes that are not JSON
RawPayloads ==
    [encoding |-> <<"text", <<>>>>, syntax |-> EncodeToString(<<"text", <<>>>>)]

\* a holder of the secret signs header.payload for such a payload segment
SignRaw(secret, flaw) ==
    /\ \A q \in Procs : pc[q] = "idle"
    /\ LET data == <<Header, RawPayloads[flaw]>>
       IN  wire' = [NoWire EXCEPT !.token = data \o <<signHMACSHA256(data, secret)>>,
                                  !.secret = secret, !.issuedAt = now,
                                  !.forged = flaw]
    /\ wire' # wire
    /\ UNCHANGED <<cfg, now, accounts, users, sessions, pc, call, issued, children, started, app>>

\* claims, err := VerifyJWT(token, secret)
Verify(p, secret) ==
    /\ At(p, "idle")
    /\ wire # NoWire
    /\ LET res == VerifyJWT(wire.token, secret)
       IN  /\ pc' = [pc EXCEPT ![p] = "done"]
           /\ call' = [call EXCEPT ![p] =
                         [IdleCall EXCEPT !.op = "VerifyJWT", !.presented = wire.token,
                                          !.secret = secret, !.claims = res.claims,
                                          !.err = IF res.err = "" THEN "ok" ELSE res.err]]
    /\ UNCHANGED <<cfg, wire, now, accounts, users, sessions, issued, children, started, app>>

CodecNext ==
    \/ \E secret \in Secrets, ttl \in TTLs, sessionId \in SubjectArgs, kind \in Kinds,
          accountId \in OptionalIds, userId \in OptionalIds :
             Issue(secret, ttl, sessionId, kind, accountId, userId)
    \/ \E signature \in OtherSignatures(wire.token) : TamperSignature(signature)
    \/ DropSignature
    \/ \E secret \in Secrets, flaw \in DOMAIN RawPayloads : SignRaw(secret, flaw)
    \/ \E secret \in Secrets : Verify(1, secret)
    \/ Return(1)
    \/ Tick

CodecSpec == Init /\ [][CodecNext]_vars

\* the process is restarted with other guest settings; the database stays
Reconfigure(c) ==
    /\ \A q \in Procs : pc[q] = "idle"
    /\ started < MaxRequests
    /\ c # cfg
    /\ cfg' = c
    /\ started' = started + 1
    /\ UNCHANGED <<wire, now, accounts, users, sessions, pc, call, issued, children, app>>

\* guest traffic under every guest configuration an operator may set
GuestInit ==
    /\ cfg \in Configs
    /\ now = 1
    /\ accounts = {}
    /\ users = {}
    /\ sessions = <<>>
    /\ pc = [p \in Procs |-> "idle"]
    /\ call = [p \in Procs |-> IdleCall]
    /\ issued = {}
    /\ wire = NoWire
    /\ children = {}
    /\ started = 0
    /\ app = Serving

GuestRequest(p) ==
    \/ \E ua \in UserAgents : SignInGuest(p, ua)
    \/ MintCreateSession(p)
    \/ \E id \in SessionIdArgs : SignOut(p, id)
    \/ \E rt \in Credentials : RefreshGetSession(p, rt)
    \/ RefreshRevoke(p)
    \/ Return(p)

GuestNext ==
    \/ Tick
    \/ \E c \in Configs : Reconfigure(c)
    \/ \E p \in Procs : GuestRequest(p)

GuestSpec == GuestInit /\ [][GuestNext]_vars

\* guest sign-ins alone, from concurrent contexts, under a fixed positive
\* ceiling, with the count query always answering
GuestRaceInit ==
    /\ GuestInit
    /\ cfg.GuestEnabled
    /\ cfg.GuestRatePerMinute > 0

SignInGuestCounted(p, userAgent) ==
    /\ SignInGuest(p, userAgent)
    /\ ~call'[p].countErr

GuestRaceNext ==
    \/ Tick
    \/ \E p \in Procs :
          \/ \E ua \in UserAgents : SignInGuestCounted(p, ua)
          \/ MintCreateSession(p)
          \/ Return(p)

GuestRaceSpec == GuestRaceInit /\ [][GuestRaceNext]_vars

\* =============================================================== claims
Done(p, op) == pc[p] = "done" /\ call[p].op = op

\* non-revoked sessions of an (account, userAgent) pair
LiveSessions(accountId, userAgent) ==
    {i \in SessionIds :
        /\ sessions[i].account_id = accountId
        /\ sessions[i].user_agent = userAgent
        /\ sessions[i].revoked_at = NULL}

\* sessions holding a refresh credential
Holders(refreshToken) ==
    {i \in SessionIds : sessions[i].refresh_token_hash = refreshToken}

\* C1: refresh credentials are single-use.  In a sequential history, once a
\* RefreshToken(c) has succeeded (a session was minted from the one holding
\* c), a later RefreshToken(c) creates no session and revokes none, and when
\* its store call answers it returns ExpiredRefreshToken.
C1_RefreshSingleUse ==
    \A p \in Procs :
        (Done(p, "RefreshToken") /\ call[p].wasRotated) =>
            /\ call[p].err # "ok"
            /\ call[p].created = {}
            /\ call[p].revoked = {}
            /\ ~call[p].fault => call[p].err = "ExpiredRefreshToken"

C1_Witness ==
    \E p \in Procs :
        /\ Done(p, "RefreshToken")
        /\ call[p].wasRotated
        /\ ~call[p].fault
        /\ call[p].err = "ExpiredRefreshToken"

\* C2: with no store fault, a sequential RefreshToken(c) succeeds exactly
\* when, at its lookup, some session holds c, is not revoked and has
\* refresh_expires_at > now; otherwise it returns ExpiredRefreshToken and
\* neither revokes nor creates a session.
C2_RefreshIffUsable ==
    \A p \in Procs :
        (Done(p, "RefreshToken") /\ ~call[p].fault) =>
            /\ call[p].err = "ok" <=> call[p].wasUsable
            /\ ~call[p].wasUsable =>
                  /\ call[p].err = "ExpiredRefreshToken"
                  /\ call[p].created = {}
                  /\ call[p].revoked = {}

\* the miss where the credential was issued, its session is not revoked, and
\* only the refresh expiry has passed
C2_Witness ==
    \E p \in Procs :
        /\ Done(p, "RefreshToken")
        /\ ~call[p].fault
        /\ call[p].err = "ExpiredRefreshToken"
        /\ \E i \in Holders(call[p].refreshToken) :
              /\ sessions[i].revoked_at = NULL
              /\ sessions[i].refresh_expires_at <= now

\* C3: device single-session.  In a sequential history, right after a
\* successful SignIn exactly one non-revoked session exists for its
\* (account, userAgent) pair.
C3_DeviceSingleSession ==
    \A p \in Procs :
        (Done(p, "SignIn") /\ call[p].err = "ok") =>
            Cardinality(LiveSessions(call[p].accountId, call[p].userAgent)) = 1

\* C4: session state machine.  Every step keeps every session row, changes
\* no attribute of a row other than revoked_at, and changes revoked_at only
\* from NULL to an instant.
C4_SessionStateMachine ==
    [][ /\ Len(sessions') >= Len(sessions)
        /\ \A i \in DOMAIN sessions :
              \/ sessions'[i] = sessions[i]
              \/ /\ sessions[i].revoked_at = NULL
                 /\ sessions'[i].revoked_at # NULL
                 /\ sessions'[i] = [sessions[i] EXCEPT !.revoked_at = sessions'[i].revoked_at]
      ]_vars

\* SignOut of a session revoked at an earlier instant has returned
C4_Witness ==
    \E p \in Procs :
        /\ Done(p, "SignOut")
        /\ call[p].err = "ok"
        /\ call[p].sessionId \in SessionIds
        /\ sessions[call[p].sessionId].revoked_at # NULL
        /\ sessions[call[p].sessionId].revoked_at < now

\* C5: rotation on refresh.  A successful RefreshToken(c) has revoked the
\* session that held c and inserted exactly one session, of the same kind,
\* account reference and user-agent, whose refresh credential (the one
\* returned) differs from c.
C5_RotationOnRefresh ==
    \A p \in Procs :
        (Done(p, "RefreshToken") /\ call[p].err = "ok") =>
            LET old == call[p].found
            IN  /\ old \in SessionIds
                /\ sessions[old].refresh_token_hash = call[p].refreshToken
                /\ sessions[old].revoked_at # NULL
                /\ call[p].revoked = {old}
                /\ Cardinality(call[p].created) = 1
                /\ \A n \in call[p].created :
                      /\ n \in SessionIds /\ n # old
                      /\ sessions[n].kind = sessions[old].kind
                      /\ sessions[n].account_id = sessions[old].account_id
                      /\ sessions[n].user_agent = sessions[old].user_agent
                      /\ sessions[n].revoked_at = NULL
                      /\ sessions[n].refresh_token_hash # call[p].refreshToken
                      /\ sessions[n].refresh_token_hash = call[p].refresh
                      /\ <<old, n>> \in children

\* a user session rotated
C5_Witness ==
    \E p \in Procs :
        /\ Done(p, "RefreshToken")
        /\ call[p].err = "ok"
        /\ sessions[call[p].found].kind = "user"
        /\ sessions[call[p].found].account_id # NULL

\* another RefreshToken call revoked session i
RotatedByOther(p, i) ==
    \E q \in Procs \ {p} : call[q].op = "RefreshToken" /\ i \in call[q].revoked

RightPassword(accountId, password) ==
    \E a \in accounts : a.id = accountId /\ a.password_hash[2] = password

\* C7: concurrent sign-in on one device.  A SignIn that passed the credential
\* checks and met no store fault succeeds, whatever the other request did in
\* between (revoking nothing is not a failure).
C7_ConcurrentSignInSucceeds ==
    \A p \in Procs :
        (/\ Done(p, "SignIn")
         /\ ~call[p].fault
         /\ call[p].accountId # NULL
         /\ ~call[p].wasLocked
         /\ RightPassword(call[p].accountId, call[p].password)) =>
            /\ call[p].err = "ok"
            /\ call[p].created # {}

\* both revoked before either created: this SignIn revoked nothing although
\* the pair's earlier session was revoked in the same minute by the other
\* SignIn, and the pair now has two live sessions, neither access-expired
C7_Witness ==
    \E p \in Procs :
        /\ Done(p, "SignIn")
        /\ call[p].err = "ok"
        /\ call[p].revoked = {}
        /\ \E k \in SessionIds :
              /\ sessions[k].account_id = call[p].accountId
              /\ sessions[k].user_agent = call[p].userAgent
              /\ sessions[k].revoked_at = now
        /\ LET live == LiveSessions(call[p].accountId, call[p].userAgent)
           IN  /\ Cardinality(live) = 2
               /\ \A i \in live : sessions[i].expires_at > now

\* C8: SignIn with an e-mail that matches no account, and SignIn with a
\* matching e-mail of an unlocked account and a wrong password, both return
\* InvalidCredentials, and neither creates nor revokes a session.
C8_InvalidCredentials ==
    \A p \in Procs :
        (/\ Done(p, "SignIn")
         /\ ~call[p].fault
         /\ \/ call[p].accountId = NULL
            \/ /\ ~call[p].wasLocked
               /\ ~RightPassword(call[p].accountId, call[p].password)) =>
            /\ call[p].err = "InvalidCredentials"
            /\ call[p].created = {}
            /\ call[p].revoked = {}

\* a wrong password for an account that has a live session on this device
C8_Witness ==
    \E p \in Procs :
        /\ Done(p, "SignIn")
        /\ call[p].accountId # NULL
        /\ call[p].err = "InvalidCredentials"
        /\ LiveSessions(call[p].accountId, call[p].userAgent) # {}

\* C9: a SignIn that finds its account locked returns AccountLocked whatever
\* the password, creates no session and revokes none (it never reaches the
\* revoke or mint steps).
C9_AccountLocked ==
    \A p \in Procs :
        (call[p].op = "SignIn" /\ call[p].wasLocked) =>
            /\ pc[p] = "done"
            /\ call[p].err = "AccountLocked"
            /\ call[p].created = {}
            /\ call[p].revoked = {}

\* locked, and the password was right
C9_Witness ==
    \E p \in Procs :
        /\ Done(p, "SignIn")
        /\ call[p].wasLocked
        /\ RightPassword(call[p].accountId, call[p].password)
        /\ call[p].err = "AccountLocked"

ProfilesOf(accountId) == {u \in users : u.account_id = accountId}

\* C10: sign-up atomicity.  In every state each committed account has exactly
\* one committed profile and each profile an account; a SignUp that returns
\* an error (a store failure at CreateUser or Commit included) has committed
\* neither its account nor its profile, and one that returns success both.
C10_SignUpAtomic ==
    /\ \A a \in accounts : Cardinality(ProfilesOf(a.id)) = 1
    /\ \A u \in users : \E a \in accounts : a.id = u.account_id
    /\ \A p \in Procs :
          Done(p, "SignUp") =>
             LET committed == \E a \in accounts : a.id = call[p].accountId
             IN  /\ call[p].fault => call[p].err # "ok"
                 /\ call[p].err = "ok" <=> committed
                 /\ call[p].err # "ok" => ProfilesOf(call[p].accountId) = {}

\* the account row was inserted, a later statement of the transaction failed
C10_Witness ==
    \E p \in Procs :
        /\ Done(p, "SignUp")
        /\ call[p].fault
        /\ call[p].accountId # NULL
        /\ call[p].err = "StoreError"

\* two addresses that differ at most in case and surrounding whitespace
SameAddress(e1, e2) == TrimSpace(ToLower(e1)) = TrimSpace(ToLower(e2))

\* an account other than the one this SignUp inserted has its address
AddressHeld(p) ==
    \E a \in accounts :
        SameAddress(a.email, call[p].typed) /\ a.id # call[p].accountId

\* C11: e-mail uniqueness under normalization.  In every state no two
\* accounts have addresses equal up to case and surrounding whitespace; a
\* SignUp whose address, so compared, is that of an existing account returns
\* AccountExists (when its store call answers) having inserted nothing, and
\* the step on which a SignUp returns AccountExists leaves accounts and
\* profiles as they were.
C11_EmailUnique ==
    /\ [](/\ \A a, b \in accounts : SameAddress(a.email, b.email) => a = b
          /\ \A p \in Procs :
                (Done(p, "SignUp") /\ ~call[p].fault /\ AddressHeld(p)) =>
                    /\ call[p].err = "AccountExists"
                    /\ call[p].accountId = NULL
                    /\ call[p].txAccount = NoAccount
                    /\ call[p].txUser = NoUser)
    /\ [][\A p \in Procs :
            (/\ pc[p] # "done"
             /\ pc'[p] = "done"
             /\ call'[p].op = "SignUp"
             /\ call'[p].err = "AccountExists") =>
                /\ accounts' = accounts
                /\ users' = users]_vars

\* the address typed differs from the stored one in case and whitespace
C11_Witness ==
    \E p \in Procs :
        /\ Done(p, "SignUp")
        /\ call[p].err = "AccountExists"
        /\ \E a \in accounts :
              a.email # call[p].typed /\ SameAddress(a.email, call[p].typed)

\* C12: guest rate limiting.  With guest sign-in enabled, a ceiling N > 0
\* and the count query answering, a SignInGuest from a user-agent that has at
\* least N guest sessions created within the trailing minute returns
\* GuestRateLimited at once and creates no session; one from a user-agent
\* below its own count, whatever other user-agents did in that minute,
\* creates one guest session for it and succeeds (unless the store fails the
\* insert).
C12_GuestRateLimit ==
    \A p \in Procs :
        (/\ call[p].op = "SignInGuest"
         /\ cfg.GuestEnabled
         /\ cfg.GuestRatePerMinute > 0
         /\ ~call[p].countErr) =>
            /\ call[p].recent >= cfg.GuestRatePerMinute =>
                  /\ pc[p] = "done"
                  /\ call[p].err = "GuestRateLimited"
                  /\ call[p].created = {}
            /\ (/\ call[p].recent < cfg.GuestRatePerMinute
                /\ pc[p] = "done"
                /\ ~call[p].fault) =>
                  /\ call[p].err = "ok"
                  /\ Cardinality(call[p].created) = 1
                  /\ \A n \in call[p].created :
                        /\ sessions[n].kind = "guest"
                        /\ sessions[n].user_agent = call[p].userAgent

\* X is refused while, in the same minute and after X had reached the
\* ceiling, a guest session was created for another user-agent Y
C12_Witness ==
    \E p \in Procs :
        /\ Done(p, "SignInGuest")
        /\ call[p].err = "GuestRateLimited"
        /\ \E y \in SessionIds :
              /\ sessions[y].kind = "guest"
              /\ sessions[y].user_agent # call[p].userAgent
              /\ sessions[y].created_at = now
              /\ Cardinality({i \in RecentGuests(call[p].userAgent) : i < y})
                    >= cfg.GuestRatePerMinute

\* C13: with guest sign-in disabled, SignInGuest returns GuestDisabled at
\* once: the count query is not sent (the rate limit is not consulted), no
\* store call is made and no session or token is created.
C13_GuestDisabled ==
    \A p \in Procs :
        (call[p].op = "SignInGuest" /\ ~cfg.GuestEnabled) =>
            /\ pc[p] = "done"
            /\ call[p].err = "GuestDisabled"
            /\ ~call[p].counted
            /\ ~call[p].fault
            /\ call[p].created = {}
            /\ call[p].token = NoToken

\* disabled, and the user-agent is over a positive ceiling
C13_Witness ==
    \E p \in Procs :
        /\ Done(p, "SignInGuest")
        /\ call[p].err = "GuestDisabled"
        /\ cfg.GuestRatePerMinute > 0
        /\ call[p].recent >= cfg.GuestRatePerMinute

\* C14: rate-limit soft-fail.  A SignInGuest whose count query failed is
\* never refused with GuestRateLimited: it goes on to the insert, and returns
\* success with one guest session created unless the insert fails, also when
\* the user-agent is at or over the ceiling.  With a ceiling of 0 or less the
\* count query is not sent and GuestRateLimited is never returned.
C14_RateLimitSoftFail ==
    \A p \in Procs :
        (call[p].op = "SignInGuest" /\ cfg.GuestEnabled) =>
            /\ call[p].countErr =>
                  /\ call[p].err # "GuestRateLimited"
                  /\ pc[p] \in {"mint_insert", "done"}
                  /\ (pc[p] = "done" /\ ~call[p].fault) =>
                        /\ call[p].err = "ok"
                        /\ Cardinality(call[p].created) = 1
            /\ cfg.GuestRatePerMinute <= 0 =>
                  /\ ~call[p].counted
                  /\ call[p].err # "GuestRateLimited"
                  /\ (pc[p] = "done" /\ ~call[p].fault) => call[p].err = "ok"

\* the count failed for a user-agent at its ceiling, and the session was made
C14_Witness ==
    \E p \in Procs :
        /\ Done(p, "SignInGuest")
        /\ call[p].countErr
        /\ call[p].recent >= cfg.GuestRatePerMinute
        /\ call[p].err = "ok"
        /\ call[p].created # {}

\* the claims a token carries in its payload segment
ClaimsOf(token) == Unmarshal(DecodeString(token[2]).bytes).claims

\* C15: claim/kind consistency.  Every access token handed out by SignIn,
\* SignInGuest or RefreshToken names a stored session of its own kind; a
\* guest token carries no account id and no user id and its session's
\* account reference is null; a user token carries both, the user id is the
\* profile of that account, and its session's account reference is the
\* account id.
C15_ClaimKindConsistent ==
    /\ \A p \in Procs :
          (pc[p] = "done" /\ call[p].err = "ok"
             /\ call[p].op \in {"SignIn", "SignInGuest", "RefreshToken"}) =>
                /\ call[p].token \in issued
                /\ ClaimsOf(call[p].token).Sub \in call[p].created
    /\ \A t \in issued :
          LET c == ClaimsOf(t)
          IN  /\ c.Sub \in SessionIds
              /\ c.Kind \in {"guest", "user"}
              /\ sessions[c.Sub].kind = c.Kind
              /\ c.Kind = "guest" =>
                    /\ c.Aid = NULL
                    /\ c.Uid = NULL
                    /\ sessions[c.Sub].account_id = NULL
              /\ c.Kind = "user" =>
                    /\ c.Aid # NULL
                    /\ c.Uid # NULL
                    /\ \E u \in users : u.id = c.Uid /\ u.account_id = c.Aid
                    /\ sessions[c.Sub].account_id = c.Aid

\* a user token minted by RefreshToken beside a guest token
C15_Witness ==
    /\ \E p \in Procs :
          /\ Done(p, "RefreshToken")
          /\ call[p].err = "ok"
          /\ ClaimsOf(call[p].token).Kind = "user"
    /\ \E t \in issued : ClaimsOf(t).Kind = "guest"

VerifiedAsIssued(p) ==
    /\ Done(p, "VerifyJWT")
    /\ wire.forged = ""
    /\ call[p].secret = wire.secret

\* the claims the arguments of the issue stand for
IssuedClaims ==
    [Sub |-> wire.sessionId, Aid |-> wire.accountId, Uid |-> wire.userId,
     Kind |-> wire.kind, Iat |-> wire.issuedAt, Exp |-> wire.issuedAt + wire.ttl]

\* C17: token round trip.  For every secret, non-empty session id, kind,
\* optional account and user id and ttl, VerifyJWT on the token NewAccessToken
\* returned, with the same secret and at a time not after its expiry, returns
\* no error and the claims sub, aid, uid, kind, iat, exp as issued.
C17_RoundTrip ==
    \A p \in Procs :
        (/\ VerifiedAsIssued(p)
         /\ wire.sessionId # NULL
         /\ now <= wire.issuedAt + wire.ttl) =>
            /\ call[p].err = "ok"
            /\ call[p].claims = IssuedClaims

\* a user token with account and user id, verified after a clock tick
C17_Witness ==
    \E p \in Procs :
        /\ VerifiedAsIssued(p)
        /\ call[p].err = "ok"
        /\ call[p].claims.Aid # NULL
        /\ call[p].claims.Uid # NULL
        /\ call[p].claims.Iat < now

\* C18: tamper detection.  VerifyJWT with the issuing secret on a token whose
\* signature segment was changed (three segments kept), and VerifyJWT on the
\* unchanged token with another secret, both return InvalidSignature and no
\* claims, whatever the token's claims and the time.
C18_TamperDetected ==
    \A p \in Procs :
        (/\ Done(p, "VerifyJWT")
         /\ \/ wire.forged = "signature" /\ call[p].secret = wire.secret
            \/ wire.forged = "" /\ call[p].secret # wire.secret) =>
            /\ call[p].err = "InvalidSignature"
            /\ call[p].claims = NoClaim

\* the signature segment replaced by text that is base64url, on a token that
\* would otherwise verify
C18_Witness ==
    \E p \in Procs :
        /\ Done(p, "VerifyJWT")
        /\ wire.forged = "signature"
        /\ call[p].secret = wire.secret
        /\ call[p].presented[3][1] = "b64"
        /\ wire.sessionId # NULL
        /\ now <= wire.issuedAt + wire.ttl
        /\ call[p].err = "InvalidSignature"

\* C19: expiry boundary.  VerifyJWT on a correctly signed token with a
\* non-empty subject returns ExpiredToken exactly when now > exp, and accepts
\* the token otherwise: exp = now - 1 is refused, exp = now and exp = now + 1
\* are accepted.
C19_ExpiryBoundary ==
    \A p \in Procs :
        (VerifiedAsIssued(p) /\ wire.sessionId # NULL) =>
            /\ call[p].err = "ExpiredToken" <=> now > ClaimsOf(call[p].presented).Exp
            /\ now <= IssuedClaims.Exp => call[p].err = "ok"
            /\ now > IssuedClaims.Exp => call[p].err = "ExpiredToken"

\* refused one second after exp
C19_Witness ==
    \E p \in Procs :
        /\ VerifiedAsIssued(p)
        /\ wire.sessionId # NULL
        /\ IssuedClaims.Exp = now - 1
        /\ call[p].err = "ExpiredToken"

\* C20 as claimed: a guest token issued with ttl = 0 and verified at the
\* clock reading of its issue is refused with ExpiredToken.
C20_ZeroTtlExpired ==
    \A p \in Procs :
        (/\ VerifiedAsIssued(p)
         /\ wire.sessionId # NULL
         /\ wire.kind = "guest"
         /\ wire.ttl = 0
         /\ now = wire.issuedAt) => call[p].err = "ExpiredToken"

\* C21: SignOut(sessionId) whose store call answers returns success whether
\* the session is active, already revoked or missing; on its step the named
\* session, if it exists, ends revoked, a session that was already revoked
\* keeps its row (its revoked_at included), every other session is unchanged
\* and no row is added.
C21_SignOutIdempotent ==
    [][\A p \in Procs :
          (/\ pc[p] = "idle"
           /\ pc'[p] = "done"
           /\ call'[p].op = "SignOut"
           /\ ~call'[p].fault) =>
              LET id == call'[p].sessionId
              IN  /\ call'[p].err = "ok"
                  /\ DOMAIN sessions' = DOMAIN sessions
                  /\ id \in SessionIds =>
                        /\ sessions'[id].revoked_at # NULL
                        /\ sessions[id].revoked_at # NULL => sessions'[id] = sessions[id]
                        /\ sessions'[id] = [sessions[id] EXCEPT
                                               !.revoked_at = sessions'[id].revoked_at]
                  /\ \A i \in SessionIds : i # id => sessions'[i] = sessions[i]]_vars

\* SignOut of an id that names no session, beside a live session
C21_Witness ==
    \E p \in Procs :
        /\ Done(p, "SignOut")
        /\ call[p].err = "ok"
        /\ call[p].sessionId \notin SessionIds
        /\ \E i \in SessionIds : sessions[i].revoked_at = NULL

\* C22 as claimed: RevokeSessionById applied to a session that is already
\* revoked, or to an id that matches no session, changes nothing and returns
\* no error to its caller.
C22_RevokeByIdNoError ==
    \A p \in Procs :
        (Done(p, "SignOut") /\ ~call[p].fault /\ call[p].revoked = {}) =>
            call[p].revokeErr = ""

\* the errors that stand for a business rule
BusinessErrors ==
    {"InvalidCredentials", "AccountLocked", "AccountExists", "GuestDisabled",
     "GuestRateLimited", "ExpiredRefreshToken"}

\* C23: a SignUp, SignIn, SignOut or RefreshToken one of whose store calls
\* failed (store failure or cancellation) returns an error, and that error
\* is none of the business errors: a failed account lookup is not
\* InvalidCredentials, a failed refresh lookup is not ExpiredRefreshToken.
C23_StoreFailureDistinct ==
    \A p \in Procs :
        (/\ pc[p] = "done"
         /\ call[p].fault
         /\ call[p].op \in {"SignUp", "SignIn", "SignOut", "RefreshToken"}) =>
            /\ call[p].err # "ok"
            /\ call[p].err \notin BusinessErrors

\* the account lookup of a SignIn failed although the account exists
C23_Witness ==
    \E p \in Procs :
        /\ Done(p, "SignIn")
        /\ call[p].fault
        /\ call[p].accountId = NULL
        /\ GetAuthByEmail(call[p].email) # {}

\* C24: the guest rate count ignores revocation.  No step that leaves the
\* clock and the number of session rows alone (in particular no revocation
\* by SignOut or by a refresh rotation) changes the number counted for any
\* user-agent; and a SignInGuest from a user-agent with at least N guest
\* sessions created in the trailing minute, revoked or not, is refused with
\* GuestRateLimited (guest enabled, N > 0, count query answering).
C24_CountIgnoresRevocation ==
    /\ [](\A p \in Procs :
            (/\ call[p].op = "SignInGuest"
             /\ cfg.GuestEnabled
             /\ cfg.GuestRatePerMinute > 0
             /\ ~call[p].countErr
             /\ call[p].recent >= cfg.GuestRatePerMinute) =>
                /\ pc[p] = "done"
                /\ call[p].err = "GuestRateLimited")
    /\ [][\A ua \in UserAgents :
            (now' = now /\ Len(sessions') = Len(sessions)) =>
                CountRecentGuestByUsertAgent(ua, now - Minute)' =
                    CountRecentGuestByUsertAgent(ua, now - Minute)]_vars

\* refused although every guest session of the user-agent in the window has
\* been revoked
C24_Witness ==
    \E p \in Procs :
        /\ Done(p, "SignInGuest")
        /\ call[p].err = "GuestRateLimited"
        /\ RecentGuests(call[p].userAgent) # {}
        /\ \A i \in RecentGuests(call[p].userAgent) : sessions[i].revoked_at # NULL

\* guest sessions of a user-agent created more than a minute ago
OldGuests(userAgent) ==
    {i \in SessionIds :
        /\ sessions[i].kind = "guest"
        /\ sessions[i].user_agent = userAgent
        /\ now - sessions[i].created_at > Minute}

\* C28: rate-limit recovery.  Guest sessions created more than a minute
\* before a SignInGuest call are not counted: with guest sign-in enabled, a
\* call from a user-agent that got no guest session within the trailing
\* minute is never refused with GuestRateLimited, however many older guest
\* sessions it has, and succeeds with one new guest session unless a store
\* call of its own fails.
C28_RateLimitRecovery ==
    \A p \in Procs :
        (/\ call[p].op = "SignInGuest"
         /\ cfg.GuestEnabled
         /\ call[p].recent = 0) =>
            /\ call[p].err # "GuestRateLimited"
            /\ pc[p] \in {"mint_insert", "done"}
            /\ (pc[p] = "done" /\ ~call[p].fault) =>
                  /\ call[p].err = "ok"
                  /\ Cardinality(call[p].created) = 1

\* admitted under a positive ceiling that the user-agent's older guest
\* sessions alone would reach
C28_Witness ==
    \E p \in Procs :
        /\ Done(p, "SignInGuest")
        /\ call[p].err = "ok"
        /\ call[p].counted
        /\ ~call[p].countErr
        /\ call[p].recent = 0
        /\ Cardinality(OldGuests(call[p].userAgent)) >= cfg.GuestRatePerMinute

\* the presented token's third segment is the MAC of its first two under
\* the verifier's secret / is known not to be
SignatureMatches(p) ==
    wire.forged \in {"", "encoding", "syntax"} /\ call[p].secret = wire.secret

SignatureDiffers(p) ==
    \/ wire.forged = "signature" /\ call[p].secret = wire.secret
    \/ wire.forged \in {"", "encoding", "syntax"} /\ call[p].secret # wire.secret

\* the payload segment decodes and parses to claims with a subject
PayloadSound == wire.forged \notin {"encoding", "syntax"} /\ wire.sessionId # NULL

\* C25: precedence of VerifyJWT's errors.  A token without exactly three
\* segments is InvalidToken; else a signature mismatch is InvalidSignature,
\* also when the payload cannot be decoded or parsed or the token is
\* expired; else a payload that is not base64url, not JSON, or has an empty
\* subject is InvalidToken, also when expired; else now > exp is
\* ExpiredToken; claims are returned only when all four checks pass, and
\* then they are the claims issued.
C25_VerifyPrecedence ==
    \A p \in Procs :
        Done(p, "VerifyJWT") =>
            /\ wire.forged = "structure" => call[p].err = "InvalidToken"
            /\ SignatureDiffers(p) => call[p].err = "InvalidSignature"
            /\ (SignatureMatches(p) /\ ~PayloadSound) => call[p].err = "InvalidToken"
            /\ (SignatureMatches(p) /\ PayloadSound) =>
                  IF now > wire.issuedAt + wire.ttl
                  THEN call[p].err = "ExpiredToken"
                  ELSE call[p].err = "ok" /\ call[p].claims = IssuedClaims
            /\ call[p].err # "ok" => call[p].claims = NoClaim
            /\ call[p].err = "ok" =>
                  /\ wire.forged \in {"", "signature"}
                  /\ PayloadSound
                  /\ now <= wire.issuedAt + wire.ttl

\* a correctly built token whose payload is not base64url, verified with
\* another secret: the signature error wins
C25_Witness ==
    \E p \in Procs :
        /\ Done(p, "VerifyJWT")
        /\ wire.forged = "encoding"
        /\ call[p].secret # wire.secret
        /\ call[p].err = "InvalidSignature"

\* the operations that mint a session and a token pair
Minting == {"SignIn", "SignInGuest", "RefreshToken"}

\* C26: every successful SignIn, SignInGuest and RefreshToken creates
\* exactly one new session and returns the pair bound to it: the access
\* token's subject is the new session's id and the refresh credential
\* returned is the refresh hash stored in that session.  One that returns an
\* error creates no session; in particular a failed profile-id resolution
\* leaves no new row.  (The session table grows by one row exactly in the
\* step in which a minting operation succeeds.)
C26_OneSessionPerSuccess ==
    /\ [](\A p \in Procs :
            (pc[p] = "done" /\ call[p].op \in Minting) =>
                IF call[p].err = "ok"
                THEN /\ Cardinality(call[p].created) = 1
                     /\ \A n \in call[p].created :
                           /\ n \in SessionIds
                           /\ ClaimsOf(call[p].token).Sub = n
                           /\ call[p].refresh # NULL
                           /\ sessions[n].refresh_token_hash = call[p].refresh
                ELSE call[p].created = {} /\ call[p].token = NoToken)
    /\ [][/\ Len(sessions') \in {Len(sessions), Len(sessions) + 1}
          /\ Len(sessions') = Len(sessions) + 1 <=>
                \E p \in Procs :
                    /\ pc[p] = "mint_insert"
                    /\ pc'[p] = "done"
                    /\ call'[p].op \in Minting
                    /\ call'[p].err = "ok"
                    /\ call'[p].created = {Len(sessions')}
          /\ \A p \in Procs :
                (pc[p] # "done" /\ pc'[p] = "done" /\ call'[p].op \in Minting) =>
                    \/ call'[p].err = "ok" /\ pc[p] = "mint_insert"
                    \/ call'[p].err # "ok" /\ Len(sessions') = Len(sessions)]_vars

\* a successful refresh: one new row, named by the token
C26_Witness ==
    \E p \in Procs :
        /\ Done(p, "RefreshToken")
        /\ call[p].err = "ok"
        /\ call[p].created = {Len(sessions)}
        /\ ClaimsOf(call[p].token).Sub = Len(sessions)
        /\ Len(sessions) > 1

\* C27: frame of sign-in revocation.  In every step of a SignIn for account
\* A and user-agent U, a session row that changes is a non-revoked,
\* non-guest session of A with user-agent U, and all that changes in it is
\* revoked_at, set to the current time; sessions of other accounts, of other
\* user-agents and guest sessions are left as they were.  The only row a
\* SignIn adds is its own new user session for (A, U).
C27_SignInRevocationFrame ==
    [][\A p \in Procs :
          (pc'[p] # pc[p] /\ call'[p].op = "SignIn") =>
              /\ \A i \in SessionIds :
                    sessions'[i] # sessions[i] =>
                        /\ sessions[i].account_id = call'[p].accountId
                        /\ sessions[i].user_agent = call'[p].userAgent
                        /\ sessions[i].kind # "guest"
                        /\ sessions[i].revoked_at = NULL
                        /\ sessions'[i] = [sessions[i] EXCEPT !.revoked_at = now]
                        /\ i \in call'[p].revoked
              /\ \A n \in DOMAIN sessions' \ SessionIds :
                    /\ sessions'[n].account_id = call'[p].accountId
                    /\ sessions'[n].user_agent = call'[p].userAgent
                    /\ sessions'[n].kind = "user"]_vars

\* a sign-in revoked a session of (A, U) while a live session of A on
\* another user-agent stayed live
C27_Witness ==
    \E p \in Procs :
        /\ Done(p, "SignIn")
        /\ call[p].err = "ok"
        /\ call[p].revoked # {}
        /\ \E i \in SessionIds :
              /\ sessions[i].account_id = call[p].accountId
              /\ sessions[i].user_agent # call[p].userAgent
              /\ sessions[i].revoked_at = NULL
              /\ \E j \in call[p].revoked : i < j

\* C29 as claimed: a RefreshToken call that cannot rotate because its
\* credential's session is revoked returns ExpiredRefreshToken, whether the
\* lookup missed the session or the lookup found it and the revoke step,
\* coming after another request's revocation, matched no row.
C29_RevokedIsExpired ==
    \A p \in Procs :
        (/\ Done(p, "RefreshToken")
         /\ ~call[p].fault
         /\ call[p].revoked = {}
         /\ \E i \in SessionIds :
               /\ sessions[i].refresh_token_hash = call[p].refreshToken
               /\ sessions[i].revoked_at # NULL) =>
            call[p].err = "ExpiredRefreshToken"

\* C30 as claimed: a RefreshToken call that returns an error has revoked
\* nothing, and a session that held a usable credential when the call came
\* in and was not revoked by another request is still usable.
C30_FailedRefreshNoChange ==
    \A p \in Procs :
        (Done(p, "RefreshToken") /\ call[p].err # "ok") =>
            /\ call[p].revoked = {}
            /\ call[p].found # NULL =>
                  \/ sessions[call[p].found].revoked_at = NULL
                  \/ \E q \in Procs \ {p} : call[p].found \in call[q].revoked

\* C30 amended: a RefreshToken call that returns an error creates no
\* session.  If it failed at the lookup or at the revoke step it revoked
\* nothing; if it failed after the revoke step (profile-id resolution or the
\* session insert) the session it found is revoked by this call, at the
\* time of the call, with no replacement, and its credential no longer
\* passes the lookup.
C30_FailedRefreshEffect ==
    \A p \in Procs :
        (Done(p, "RefreshToken") /\ call[p].err # "ok") =>
            /\ call[p].created = {}
            /\ \A e \in children : e[1] # call[p].found \/ call[p].revoked = {}
            /\ IF call[p].session = NoSession
               THEN call[p].revoked = {}
               ELSE /\ call[p].revoked = {call[p].found}
                    /\ sessions[call[p].found].revoked_at = now
                    /\ GetSessionByRefreshToken(call[p].refreshToken) = {}

\* the insert failed after the revocation: the credential is spent and
\* nothing replaces it
C30_Witness ==
    \E p \in Procs :
        /\ Done(p, "RefreshToken")
        /\ call[p].fault
        /\ call[p].wasUsable
        /\ call[p].revoked = {call[p].found}
        /\ sessions[call[p].found].revoked_at # NULL
        /\ \A e \in children : e[1] # call[p].found

\* the token a sign-out request was authorized with is one the server handed
\* out and is not past its exp
ValidBearer(authHeader) ==
    /\ Len(authHeader) = 2
    /\ authHeader[1] \in {Bearer, <<"b", "e", "a", "r", "e", "r">>}
    /\ authHeader[2] \in issued
    /\ now <= ClaimsOf(authHeader[2]).Exp

\* the sessions minted from session i by refresh, directly or in steps
RECURSIVE Descendants(_)
Descendants(i) ==
    {i} \cup UNION {Descendants(e[2]) : e \in {f \in children : f[1] = i}}

C35_HandlerIffAuthorized ==
    \A p \in Procs :
        Done(p, "PostSignOut") =>
            /\ call[p].served <=> ValidBearer(call[p].header)
            /\ ~call[p].served =>
                  /\ call[p].err = "Unauthorized"
                  /\ call[p].claims = NoClaim
                  /\ call[p].revoked = {}
                  /\ ~call[p].fault
            /\ call[p].served =>
                  /\ call[p].err # "Unauthorized"
                  /\ call[p].claims = ClaimsOf(call[p].header[2])
                  /\ call[p].claims # NoClaim
                  /\ call[p].sessionId = call[p].claims.Sub

\* the scheme written in lower case, the handler called
C35_Witness ==
    \E p \in Procs :
        /\ Done(p, "PostSignOut")
        /\ call[p].served
        /\ call[p].header[1] # Bearer
        /\ call[p].revoked # {}

\* the rows a step adds to the sessions table
Inserted == DOMAIN sessions' \ DOMAIN sessions

\* C32 as claimed: while guest sign-in is disabled no operation creates a
\* guest session, RefreshToken of a guest session issued earlier included.
C32_NoGuestWhileDisabled ==
    [][\A n \in Inserted : sessions'[n].kind = "guest" => cfg.GuestEnabled]_vars

\* C32 amended: while guest sign-in is disabled SignInGuest creates no guest
\* session; a guest session created then is minted by a RefreshToken call
\* that rotated a usable guest session issued earlier.
C32_GuestWhileDisabledIsRotation ==
    [][\A n \in Inserted :
          (sessions'[n].kind = "guest" /\ ~cfg.GuestEnabled) =>
              \E p \in Procs :
                  /\ call'[p].op = "RefreshToken"
                  /\ call'[p].created = {n}
                  /\ call'[p].revoked = {call'[p].found}
                  /\ sessions[call'[p].found].kind = "guest"
                  /\ sessions[call'[p].found].created_at <= sessions'[n].created_at]_vars

\* a refresh minted a guest session while guest sign-in was disabled
C32_Witness ==
    \E p \in Procs :
        /\ Done(p, "RefreshToken")
        /\ call[p].err = "ok"
        /\ ~cfg.GuestEnabled
        /\ \A n \in call[p].created : sessions[n].kind = "guest"

\* sessions minted by a refresh rotation
Rotations == {e[2] : e \in children}

\* guest sessions of a user-agent in the trailing minute, by origin
RecentSignIns(userAgent) == RecentGuests(userAgent) \ Rotations

RecentRotations(userAgent) == RecentGuests(userAgent) \cap Rotations

\* C33 as claimed: only guest sign-ins count.  A SignInGuest is refused
\* with GuestRateLimited only if the user-agent has at least N guest sessions
\* created by SignInGuest in the trailing minute; those minted by
\* RefreshToken do not count.
C33_OnlySignInsCount ==
    \A p \in Procs :
        (Done(p, "SignInGuest") /\ call[p].err = "GuestRateLimited") =>
            Cardinality(RecentSignIns(call[p].userAgent)) >= cfg.GuestRatePerMinute

\* C33 amended: the count takes every guest session of the user-agent
\* created in the trailing minute, those minted by a RefreshToken rotation
\* as well as those created by SignInGuest.  With guest sign-in enabled,
\* N > 0 and the count query answering, a SignInGuest is refused exactly
\* when sign-ins and rotations together reach N.
C33_RotationsCount ==
    \A p \in Procs :
        (/\ call[p].op = "SignInGuest"
         /\ cfg.GuestEnabled
         /\ cfg.GuestRatePerMinute > 0
         /\ ~call[p].countErr) =>
            /\ call[p].err = "GuestRateLimited" <=>
                  call[p].recent >= cfg.GuestRatePerMinute
            /\ call[p].err = "GuestRateLimited" =>
                  /\ pc[p] = "done"
                  /\ call[p].recent =
                        Cardinality(RecentSignIns(call[p].userAgent))
                            + Cardinality(RecentRotations(call[p].userAgent))

\* refused with fewer than N sign-ins in the window: rotations made up the
\* count
C33_Witness ==
    \E p \in Procs :
        /\ Done(p, "SignInGuest")
        /\ call[p].err = "GuestRateLimited"
        /\ RecentRotations(call[p].userAgent) # {}
        /\ Cardinality(RecentSignIns(call[p].userAgent)) < cfg.GuestRatePerMinute

\* guest sessions of a user-agent created in the minute that starts at t
CreatedInWindow(userAgent, t) ==
    {i \in SessionIds :
        /\ sessions[i].kind = "guest"
        /\ sessions[i].user_agent = userAgent
        /\ sessions[i].created_at >= t
        /\ sessions[i].created_at - t <= Minute}

\* C34 as claimed: with a ceiling N > 0, the count query always answering
\* and no RefreshToken calls, no user-agent has more than N guest sessions
\* created within one minute, however concurrent SignInGuest calls
\* interleave.
C34_CeilingUnderConcurrency ==
    \A ua \in UserAgents, t \in 1..MaxTime :
        Cardinality(CreatedInWindow(ua, t)) <= cfg.GuestRatePerMinute

\* C36 as claimed: after gracefulShutdown has completed without error,
\* every database pool the application opened through its database manager
\* (the "primary" connection of main) is closed.
C36_ShutdownClosesPools ==
    (app.phase = "returned" /\ app.err = "nil") => app.open = {}

====
